---- MODULE Spec2Model ----
(***************************************************************************)
(* Timer microservice: the durable store (timerRepository), the snapshot   *)
(* cache (redis), the connection registry and broadcaster                  *)
(* (websocket.Handler), the tick engine and command surface                *)
(* (service.TimerService), the request/response surface                    *)
(* (handlers.TimerHandler) and the startup Restore (main).                 *)
(***************************************************************************)
EXTENDS Integers, Sequences, FiniteSets, TLC

\* ---------------------------------------------------------------- bounds
MaxTime == 2        \* largest maxTime a request carries
MaxTimers == 1      \* rows the store's auto-increment hands out
MaxConns == 2       \* push channels that can be connected at once

\* ---------------------------------------------------------------- inputs
Sessions == {"s1", "1"}
TimerIds == 1..MaxTimers
ConnIds == 1..MaxConns
Times == 0..MaxTime
IdStrings == {ToString(i) : i \in TimerIds}
\* what a client may put in the "sessionId" field of a push-channel payload
PayloadStrings == Sessions \cup IdStrings

VARIABLES
    rows,         \* durable store: the timers table (set of types.Timer rows)
    nextID,       \* durable store: next auto-increment primary key
    cache,        \* redis: key -> timer JSON
    connections,  \* Handler.connections: sessionID -> conn
    chan,         \* per connection: its handleWebSocket task and its peer
    sent,         \* WriteJSON calls made by the last step
    out,          \* last step: HTTP response written, store updates logged as failed
    hist,         \* scenario bookkeeping: last command on a timer, value expected now
    stopped,      \* ids on which StopTimer succeeded while the row existed
    main,         \* the process: where main is, RestoreTimers runs since it started
    engine,       \* TimerService: the StartTimerUpdates loop and its stopChan
    call,         \* a command in flight: the handler's and service method's locals
    pass          \* the updateTimers call in flight: its locals and its log

vars == <<rows, nextID, cache, connections, chan, sent, out, hist, stopped, main, engine,
          call, pass>>

\* ------------------------------------------------------------ types.Timer
\* the zero value of types.Timer (what a nil/absent timer prints as)
NoTimer == [ID |-> 0, SessionID |-> "", MaxTime |-> 0, CurrentTime |-> 0, IsPaused |-> FALSE]

Timer(id, sessionID, maxTime, currentTime, isPaused) ==
    [ID |-> id, SessionID |-> sessionID, MaxTime |-> maxTime,
     CurrentTime |-> currentTime, IsPaused |-> isPaused]

\* ------------------------------------------------------- timerRepository
\* db.First(&timer, id): the row with that primary key, or record-not-found
HasRow(tbl, id) == \E r \in tbl : r.ID = id

FindByID(tbl, id) == IF HasRow(tbl, id) THEN CHOOSE r \in tbl : r.ID = id ELSE NoTimer

\* db.Create(timer): insert with the next auto-increment key
Create(tbl, timer) == tbl \cup {timer}

UpdateKeepingPaused(tbl, timer) ==
    {r \in tbl : r.ID # timer.ID}
        \cup {[timer EXCEPT !.IsPaused = IF \E r \in tbl : r.ID = timer.ID
                                         THEN (CHOOSE r \in tbl : r.ID = timer.ID).IsPaused
                                         ELSE timer.IsPaused]}

\* db.Save(timer): write every column of the row with that key; when no row
\* has the key the row is inserted
Update(tbl, timer) == {r \in tbl : r.ID # timer.ID} \cup {timer}

\* db.Delete(&types.Timer{}, id): remove the row; no error when none matches
Delete(tbl, id) == {r \in tbl : r.ID # id}

\* the timers the store reports as active (not deleted)
GetActiveTimers(tbl) == tbl

\* ------------------------------------------------------------------ redis
CacheKey(suffix) == "timer:" \o suffix

\* fmt.Sprint(id)
Sprint(id) == ToString(id)

\* redis.Set(key, value, 24h)
RedisSet(c, key, value) == [k \in DOMAIN c \cup {key} |-> IF k = key THEN value ELSE c[k]]

\* redis.Del(key)
RedisDel(c, key) == [k \in DOMAIN c \ {key} |-> c[k]]

\* persistTimer: snapshot under "timer:"+SessionID
persistTimer(c, timer) == RedisSet(c, CacheKey(timer.SessionID), timer)

\* strconv.ParseUint(s, 10, 64): 0 stands for the error result
ParseUint(s) == IF s \in IdStrings THEN CHOOSE i \in TimerIds : ToString(i) = s ELSE 0

\* ------------------------------------------------------- decoded inputs
\* the values a decoded field can hold: any of S when the JSON decodes, the
\* field's zero value when it does not
Decoded(ok, S, zero) == IF ok THEN S ELSE {zero}

\* the store's answers to a handler's call: drawn only when the call is made
DbOutcomes(called) == IF called THEN BOOLEAN ELSE {TRUE}

\* ------------------------------------------------- service.TimerService
\* what a service call returns and the store/cache it leaves behind
SvcResult(err, timer, tbl, c, nid, wrote) ==
    [err |-> err, timer |-> timer, rows |-> tbl, cache |-> c, nextID |-> nid, wrote |-> wrote]

SvcFail == SvcResult(TRUE, NoTimer, rows, cache, nextID, {})

CreateTimer(sessionID, maxTime, dbOk) ==
    LET timer == Timer(nextID, sessionID, maxTime, maxTime, FALSE)
    IN  IF ~dbOk THEN SvcFail
        ELSE SvcResult(FALSE, timer, Create(rows, timer), persistTimer(cache, timer),
                       nextID + 1, {timer.ID})

PauseTimer(id, dbOk) ==
    IF ~HasRow(rows, id) \/ ~dbOk THEN SvcFail
    ELSE LET timer == [FindByID(rows, id) EXCEPT !.IsPaused = TRUE]
         IN  SvcResult(FALSE, timer, Update(rows, timer), persistTimer(cache, timer),
                       nextID, {id})

ResumeTimerRestarting(id, dbOk) ==
    IF ~HasRow(rows, id) \/ ~dbOk THEN SvcFail
    ELSE LET timer == [FindByID(rows, id) EXCEPT !.IsPaused = FALSE,
                                                !.CurrentTime = FindByID(rows, id).MaxTime]
         IN  SvcResult(FALSE, timer, Update(rows, timer), persistTimer(cache, timer),
                       nextID, {id})

ResumeTimer(id, dbOk) ==
    IF ~HasRow(rows, id) \/ ~dbOk THEN SvcFail
    ELSE LET timer == [FindByID(rows, id) EXCEPT !.IsPaused = FALSE]
         IN  SvcResult(FALSE, timer, Update(rows, timer), persistTimer(cache, timer),
                       nextID, {id})

ModifyTimerKeepingCurrent(id, newMaxTime, dbOk) ==
    IF ~HasRow(rows, id) \/ ~dbOk THEN SvcFail
    ELSE LET timer == [FindByID(rows, id) EXCEPT !.MaxTime = newMaxTime]
         IN  SvcResult(FALSE, timer, Update(rows, timer), persistTimer(cache, timer),
                       nextID, {id})

ModifyTimer(id, newMaxTime, dbOk) ==
    IF ~HasRow(rows, id) \/ ~dbOk THEN SvcFail
    ELSE LET timer == [FindByID(rows, id) EXCEPT !.MaxTime = newMaxTime,
                                                 !.CurrentTime = newMaxTime]
         IN  SvcResult(FALSE, timer, Update(rows, timer), persistTimer(cache, timer),
                       nextID, {id})

\* StopTimer returns only an error; timer carries the id for the caller's use
StopTimer(id, dbOk) ==
    IF ~dbOk THEN SvcFail
    ELSE SvcResult(FALSE, [NoTimer EXCEPT !.ID = id], Delete(rows, id),
                   RedisDel(cache, CacheKey(Sprint(id))), nextID, {id})

ShouldTickIgnoringPause(timer) == timer.CurrentTime > 0

ShouldTickAtZero(timer) == ~timer.IsPaused

\* updateTimers, line 68: the timers a pass decrements
ShouldTick(timer) == ~timer.IsPaused /\ timer.CurrentTime > 0

TickedByTwo(timer) == [timer EXCEPT !.CurrentTime = @ - 2]

\* updateTimers, line 69
Ticked(timer) == [timer EXCEPT !.CurrentTime = @ - 1]

\* repo.Update called once per timer of the set
RECURSIVE UpdateEach(_, _)
UpdateEach(tbl, timers) ==
    IF timers = {} THEN tbl
    ELSE LET t == CHOOSE x \in timers : TRUE
         IN  UpdateEach(Update(tbl, t), timers \ {t})

\* ---------------------------------------------------- websocket.Handler
FreeChan == [st |-> "free", sessionID |-> "", isGameMaster |-> FALSE]

NoConnections == [s \in {} |-> 0]

\* handleWebSocket, line 69: h.connections[sessionID] = conn
Register(conns, sessionID, c) ==
    [s \in DOMAIN conns \cup {sessionID} |-> IF s = sessionID THEN c ELSE conns[s]]

UnregisterNothing(conns, sessionID) == conns

\* closeConnection, line 92: delete(h.connections, sessionID)
Unregister(conns, sessionID) == [s \in DOMAIN conns \ {sessionID} |-> conns[s]]

UpdateMessage(timer) == [type |-> "TIMER_UPDATE", payload |-> timer]

StopMessage(timerID) == [type |-> "TIMER_STOP", payload |-> [NoTimer EXCEPT !.ID = timerID]]

\* broadcastMessage, line 256: the connections a broadcast writes to
Selected(connSessionID, sessionID, isGameMaster) ==
    isGameMaster \/ connSessionID = sessionID

\* conn.WriteJSON succeeds while the peer is there
WriteOk(c) == chan[c].st = "open"

broadcastMessageUntilFailure(message, sessionID, isGameMaster) ==
    LET all == {[conn |-> connections[s], msg |-> message, ok |-> WriteOk(connections[s])] :
                  s \in {x \in DOMAIN connections : Selected(x, sessionID, isGameMaster)}}
    IN  IF \E w \in all : ~w.ok THEN {w \in all : ~w.ok} ELSE all

\* broadcastMessage: one WriteJSON per selected connection of the map
broadcastMessage(message, sessionID, isGameMaster) ==
    {[conn |-> connections[s], msg |-> message, ok |-> WriteOk(connections[s])] :
        s \in {x \in DOMAIN connections : Selected(x, sessionID, isGameMaster)}}

broadcastTimerUpdate(timer, isGameMaster) ==
    broadcastMessage(UpdateMessage(timer), timer.SessionID, isGameMaster)

broadcastTimerStop(timerID, isGameMaster) ==
    broadcastMessage(StopMessage(timerID), "", isGameMaster)

\* the entry point the tick engine calls
BroadcastTimerUpdate(timer) == broadcastTimerUpdate(timer, TRUE)

\* ------------------------------------------------------------ bookkeeping
\* kind "http": the response written (status, timer); kind "tick": the pass's
\* log (listErr: GetActiveTimers failed; updated, failed: ids whose repo.Update
\* succeeded, failed); kind "restore": the log of RestoreTimers; kinds
\* "ignored", "dropped": the push-channel surface's log; kind "none": any
\* other step
Out(kind, status, timer, listErr, updated, failed) ==
    [kind |-> kind, status |-> status, timer |-> timer, listErr |-> listErr,
     updated |-> updated, failed |-> failed]

NoOut == Out("none", 0, NoTimer, FALSE, {}, {})

HttpOut(status, timer) == Out("http", status, timer, FALSE, {}, {})

\* the push-channel surface's log of a message it did not act on: kind
\* "ignored" (unknown type) or "dropped" (logged as an error)
WsOut(kind) == Out(kind, 0, NoTimer, FALSE, {}, {})

HistNone == [op |-> "none", id |-> 0, expect |-> 0, idle |-> FALSE]

\* the scenario a successful command on a timer starts, continues or ends;
\* expect is the currentTime the scenario's arithmetic gives, idle whether a
\* tick pass ran while the scenario's timer was paused
HistCmd(cmd, timer) ==
    CASE cmd = "create" ->
            [op |-> "create", id |-> timer.ID, expect |-> timer.MaxTime, idle |-> FALSE]
      [] cmd = "pause" ->
            [op |-> "pause", id |-> timer.ID, expect |-> timer.CurrentTime, idle |-> FALSE]
      [] cmd = "resume" /\ hist.op = "pause" /\ hist.id = timer.ID ->
            [op |-> "resume", id |-> timer.ID, expect |-> hist.expect, idle |-> hist.idle]
      [] OTHER -> IF hist.id = timer.ID THEN HistNone ELSE hist

\* a tick pass counts for the scenario when it ran without a store failure:
\* nothing is expected to change while paused, one less while counting, and
\* the scenario ends with the tick after zero
HistTick(getOk, failing) ==
    CASE hist.op = "none" -> hist
      [] ~getOk \/ hist.id \in failing -> HistNone
      [] hist.op = "pause" -> [hist EXCEPT !.idle = TRUE]
      [] hist.expect = 0 -> HistNone
      [] OTHER -> [hist EXCEPT !.expect = @ - 1]

\* the store and cache a service call leaves, and its bookkeeping
Commit(cmd, res) ==
    /\ rows' = res.rows
    /\ cache' = res.cache
    /\ nextID' = res.nextID
    /\ hist' = IF res.err THEN hist ELSE HistCmd(cmd, res.timer)
    /\ stopped' = IF cmd = "stop" /\ ~res.err /\ HasRow(rows, res.timer.ID)
                  THEN stopped \cup {res.timer.ID} ELSE stopped

\* ------------------------------------------------------------------- main
\* main, line 76: the service is constructed, RestoreTimers has not run
Booting == [pc |-> "boot", restores |-> 0]

\* NewTimerService, line 41: a fresh stopChan, no loop yet
NewEngine == [loop |-> "off", stopChan |-> "open"]

\* srv.Start is listening: routes and push-channel endpoints are served
Serving == main.pc = "serving"

TickingBeforeStart == engine.loop \in {"off", "running"}

\* the StartTimerUpdates goroutine is in its select loop
Ticking == engine.loop = "running"

\* ------------------------------------------------- goroutines in flight
\* no command is being served; steps: what the command in flight has done,
\* in order; n: commands served so far; to: the connections its broadcast
\* has still to write to; writing: the connection its WriteJSON is in, 0 if
\* none
NoCall == [pc |-> "idle", op |-> "none", conn |-> 0, timer |-> NoTimer, err |-> FALSE,
           steps |-> <<>>, n |-> 0, to |-> {}, writing |-> 0]

\* no tick pass is running; due, updated, failed, broadcast: the log of the
\* pass in flight (ids read as due, ids whose repo.Update succeeded or
\* failed, ids handed to the broadcaster)
NoPass == [pc |-> "idle", timers |-> <<>>, cur |-> NoTimer, due |-> {}, updated |-> {},
           failed |-> {}, broadcast |-> {}, to |-> {}, writing |-> 0]

\* ------------------------------------------------------------------- Init
Init ==
    /\ rows = {}
    /\ nextID = 1
    /\ cache = [k \in {} |-> NoTimer]
    /\ connections = NoConnections
    /\ chan = [c \in ConnIds |-> FreeChan]
    /\ sent = {}
    /\ out = NoOut
    /\ hist = HistNone
    /\ stopped = {}
    /\ main = Booting
    /\ engine = NewEngine
    /\ call = NoCall
    /\ pass = NoPass

\* ------------------------------------------- handlers.TimerHandler (HTTP)
RespondOkAlways(res, success) ==
    IF res.err THEN HttpOut(200, NoTimer) ELSE HttpOut(success, res.timer)

\* the response: the success status with the timer, or 500
Respond(res, success) ==
    IF res.err THEN HttpOut(500, NoTimer) ELSE HttpOut(success, res.timer)

BadRequest ==
    /\ out' = HttpOut(400, NoTimer)
    /\ UNCHANGED <<rows, cache, nextID, hist, stopped>>

\* POST /timer with body {sessionId, maxTime}; bodyOk: the body decodes
HttpCreate(bodyOk, sessionID, maxTime, dbOk) ==
    /\ Serving
    /\ nextID <= MaxTimers
    /\ LET res == CreateTimer(sessionID, maxTime, dbOk)
       IN  IF ~bodyOk THEN BadRequest
           ELSE /\ Commit("create", res)
                /\ out' = Respond(res, 201)
    /\ sent' = {}
    /\ UNCHANGED <<connections, chan, main, engine, call, pass>>

HttpCreateTimer ==
    \E bodyOk \in BOOLEAN :
        \E sessionID \in Decoded(bodyOk, Sessions, ""), maxTime \in Decoded(bodyOk, Times, 0),
           dbOk \in DbOutcomes(bodyOk) :
            HttpCreate(bodyOk, sessionID, maxTime, dbOk)

\* PUT /timer/{idStr}/pause
HttpPause(idStr, dbOk) ==
    /\ Serving
    /\ LET id == ParseUint(idStr)
           res == PauseTimer(id, dbOk)
       IN  IF id = 0 THEN BadRequest
           ELSE /\ Commit("pause", res)
                /\ out' = Respond(res, 200)
    /\ sent' = {}
    /\ UNCHANGED <<connections, chan, main, engine, call, pass>>

HttpPauseTimer ==
    \E idStr \in PayloadStrings :
        \E dbOk \in DbOutcomes(ParseUint(idStr) # 0) : HttpPause(idStr, dbOk)

\* PUT /timer/{idStr}/resume
HttpResume(idStr, dbOk) ==
    /\ Serving
    /\ LET id == ParseUint(idStr)
           res == ResumeTimer(id, dbOk)
       IN  IF id = 0 THEN BadRequest
           ELSE /\ Commit("resume", res)
                /\ out' = Respond(res, 200)
    /\ sent' = {}
    /\ UNCHANGED <<connections, chan, main, engine, call, pass>>

HttpResumeTimer ==
    \E idStr \in PayloadStrings :
        \E dbOk \in DbOutcomes(ParseUint(idStr) # 0) : HttpResume(idStr, dbOk)

\* PUT /timer/{idStr}/stop; the body of a successful stop is a fixed message
HttpStop(idStr, dbOk) ==
    /\ Serving
    /\ LET id == ParseUint(idStr)
           res == StopTimer(id, dbOk)
       IN  IF id = 0 THEN BadRequest
           ELSE /\ Commit("stop", res)
                /\ out' = Respond([res EXCEPT !.timer = NoTimer], 200)
    /\ sent' = {}
    /\ UNCHANGED <<connections, chan, main, engine, call, pass>>

HttpStopTimer ==
    \E idStr \in PayloadStrings :
        \E dbOk \in DbOutcomes(ParseUint(idStr) # 0) : HttpStop(idStr, dbOk)

\* PUT /timer/{idStr}/modify with body {maxTime}; bodyOk: the body decodes
HttpModify(idStr, bodyOk, maxTime, dbOk) ==
    /\ Serving
    /\ LET id == ParseUint(idStr)
           res == ModifyTimer(id, maxTime, dbOk)
       IN  IF id = 0 \/ ~bodyOk THEN BadRequest
           ELSE /\ Commit("modify", res)
                /\ out' = Respond(res, 200)
    /\ sent' = {}
    /\ UNCHANGED <<connections, chan, main, engine, call, pass>>

HttpModifyTimer ==
    \E idStr \in PayloadStrings, bodyOk \in BOOLEAN :
        \E maxTime \in Decoded(bodyOk, Times, 0),
           dbOk \in DbOutcomes(ParseUint(idStr) # 0 /\ bodyOk) :
            HttpModify(idStr, bodyOk, maxTime, dbOk)

\* --------------------------------------- websocket.Handler: channel tasks
\* connections are told apart only by identity: a new one takes the lowest
\* free slot
FreeSlot == CHOOSE c \in ConnIds : chan[c].st = "free" /\ \A d \in ConnIds : chan[d].st = "free" => c <= d

\* handleWebSocket up to the read loop: upgrade and register
Connect ==
    \E sessionID \in Sessions, isGameMaster \in BOOLEAN :
        /\ Serving
        /\ \E c \in ConnIds : chan[c].st = "free"
        /\ chan' = [chan EXCEPT ![FreeSlot] = [st |-> "open", sessionID |-> sessionID,
                                               isGameMaster |-> isGameMaster]]
        /\ connections' = Register(connections, sessionID, FreeSlot)
        /\ sent' = {}
        /\ out' = NoOut
        /\ UNCHANGED <<rows, nextID, cache, hist, stopped, main, engine, call, pass>>

\* the remote party goes away; the read loop has not noticed yet
PeerDrop ==
    \E c \in ConnIds :
        /\ chan[c].st = "open"
        /\ chan' = [chan EXCEPT ![c].st = "broken"]
        /\ sent' = {}
        /\ out' = NoOut
        /\ UNCHANGED <<rows, nextID, cache, connections, hist, stopped, main, engine, call, pass>>

\* what makes conn.ReadJSON return an error: the peer closed or the transport
\* broke ("close"), or the frame read is no JSON envelope ("malformed")
ReadErrors == {"close", "malformed"}

\* handleWebSocket, lines 78-84: ReadJSON fails on channel c, the loop breaks
\* and the deferred closeConnection runs
ReadError(c, cause) ==
    /\ chan[c].st \in {"open", "broken"}
    /\ cause = "malformed" => chan[c].st = "open"
    /\ connections' = Unregister(connections, chan[c].sessionID)
    /\ chan' = [chan EXCEPT ![c] = FreeChan]
    /\ sent' = {}
    /\ out' = IF cause = "malformed" THEN WsOut("dropped") ELSE NoOut
    /\ UNCHANGED <<rows, nextID, cache, hist, stopped, main, engine, call, pass>>

Disconnect == \E c \in ConnIds, cause \in ReadErrors : ReadError(c, cause)

\* ---------------------------- websocket.Handler: inbound command messages
handleMessageDefaultClosing ==
    \E c \in ConnIds :
        /\ chan[c].st = "open"
        /\ connections' = Unregister(connections, chan[c].sessionID)
        /\ chan' = [chan EXCEPT ![c] = FreeChan]
        /\ sent' = {}
        /\ out' = WsOut("ignored")
        /\ UNCHANGED <<rows, nextID, cache, hist, stopped, main, engine, call, pass>>

\* handleMessage, default branch: a message whose type is no command type is
\* logged
handleMessageDefault ==
    \E c \in ConnIds :
        /\ chan[c].st = "open"
        /\ sent' = {}
        /\ out' = WsOut("ignored")
        /\ UNCHANGED <<rows, nextID, cache, connections, chan, hist, stopped, main, engine, call, pass>>

\* the message is logged and dropped
WsDropped ==
    /\ sent' = {}
    /\ out' = WsOut("dropped")
    /\ UNCHANGED <<rows, cache, nextID, hist, stopped>>

\* the handler's tail: the service's result is committed; an error is logged,
\* a success is broadcast with the issuing endpoint's role
WsDone(cmd, res, messages) ==
    /\ Commit(cmd, res)
    /\ sent' = IF res.err THEN {} ELSE messages
    /\ out' = IF res.err THEN WsOut("dropped") ELSE NoOut

\* TIMER_CREATE with payload {sessionId, maxTime} read on channel c;
\* payloadOk: json.Unmarshal of the payload succeeds
WsCreate(c, payloadOk, sessionID, maxTime, dbOk) ==
    /\ chan[c].st = "open"
    /\ nextID <= MaxTimers
    /\ LET res == CreateTimer(sessionID, maxTime, dbOk)
       IN  IF ~payloadOk THEN WsDropped
           ELSE WsDone("create", res, broadcastTimerUpdate(res.timer, chan[c].isGameMaster))
    /\ UNCHANGED <<connections, chan, main, engine, call, pass>>

handleTimerCreate ==
    \E c \in ConnIds, payloadOk \in BOOLEAN :
        \E sessionID \in Decoded(payloadOk, Sessions, ""),
           maxTime \in Decoded(payloadOk, Times, 0), dbOk \in DbOutcomes(payloadOk) :
            WsCreate(c, payloadOk, sessionID, maxTime, dbOk)

\* TIMER_PAUSE with payload {sessionId: idStr} read on channel c
WsPause(c, payloadOk, idStr, dbOk) ==
    /\ chan[c].st = "open"
    /\ LET id == ParseUint(idStr)
           res == PauseTimer(id, dbOk)
       IN  IF ~payloadOk \/ id = 0 THEN WsDropped
           ELSE WsDone("pause", res, broadcastTimerUpdate(res.timer, chan[c].isGameMaster))
    /\ UNCHANGED <<connections, chan, main, engine, call, pass>>

handleTimerPause ==
    \E c \in ConnIds, payloadOk \in BOOLEAN :
        \E idStr \in Decoded(payloadOk, PayloadStrings, "") :
            \E dbOk \in DbOutcomes(ParseUint(idStr) # 0) :
                WsPause(c, payloadOk, idStr, dbOk)

\* TIMER_RESUME with payload {sessionId: idStr} read on channel c
WsResume(c, payloadOk, idStr, dbOk) ==
    /\ chan[c].st = "open"
    /\ LET id == ParseUint(idStr)
           res == ResumeTimer(id, dbOk)
       IN  IF ~payloadOk \/ id = 0 THEN WsDropped
           ELSE WsDone("resume", res, broadcastTimerUpdate(res.timer, chan[c].isGameMaster))
    /\ UNCHANGED <<connections, chan, main, engine, call, pass>>

handleTimerResume ==
    \E c \in ConnIds, payloadOk \in BOOLEAN :
        \E idStr \in Decoded(payloadOk, PayloadStrings, "") :
            \E dbOk \in DbOutcomes(ParseUint(idStr) # 0) :
                WsResume(c, payloadOk, idStr, dbOk)

\* TIMER_STOP with payload {sessionId: idStr} read on channel c
WsStop(c, payloadOk, idStr, dbOk) ==
    /\ chan[c].st = "open"
    /\ LET id == ParseUint(idStr)
           res == StopTimer(id, dbOk)
       IN  IF ~payloadOk \/ id = 0 THEN WsDropped
           ELSE WsDone("stop", res, broadcastTimerStop(id, chan[c].isGameMaster))
    /\ UNCHANGED <<connections, chan, main, engine, call, pass>>

handleTimerStop ==
    \E c \in ConnIds, payloadOk \in BOOLEAN :
        \E idStr \in Decoded(payloadOk, PayloadStrings, "") :
            \E dbOk \in DbOutcomes(ParseUint(idStr) # 0) :
                WsStop(c, payloadOk, idStr, dbOk)

\* TIMER_MODIFY with payload {sessionId: idStr, maxTime} read on channel c
WsModify(c, payloadOk, idStr, maxTime, dbOk) ==
    /\ chan[c].st = "open"
    /\ LET id == ParseUint(idStr)
           res == ModifyTimer(id, maxTime, dbOk)
       IN  IF ~payloadOk \/ id = 0 THEN WsDropped
           ELSE WsDone("modify", res, broadcastTimerUpdate(res.timer, chan[c].isGameMaster))
    /\ UNCHANGED <<connections, chan, main, engine, call, pass>>

handleTimerModify ==
    \E c \in ConnIds, payloadOk \in BOOLEAN :
        \E idStr \in Decoded(payloadOk, PayloadStrings, ""),
           maxTime \in Decoded(payloadOk, Times, 0) :
            \E dbOk \in DbOutcomes(ParseUint(idStr) # 0) :
                WsModify(c, payloadOk, idStr, maxTime, dbOk)

\* ------------------------------------------------------------ tick engine
\* one pass of updateTimers; failing: the timers whose repo.Update fails
updateTimers ==
    \E getOk \in BOOLEAN, failing \in SUBSET TimerIds :
        LET timers == IF getOk THEN GetActiveTimers(rows) ELSE {}
            due == {t \in timers : ShouldTick(t)}
            saved == {Ticked(t) : t \in {d \in due : d.ID \notin failing}}
        IN  /\ Ticking
            /\ failing \subseteq {t.ID : t \in due}
            /\ rows' = UpdateEach(rows, saved)
            /\ sent' = UNION {BroadcastTimerUpdate(t) : t \in saved}
            /\ out' = Out("tick", 0, NoTimer, ~getOk, {t.ID : t \in saved}, failing)
            /\ hist' = HistTick(getOk, failing)
            /\ UNCHANGED <<nextID, cache, connections, chan, stopped, main, engine, call, pass>>

\* ---------------------------------------------- tick engine: stop signal
\* StopTimerUpdates: close(s.stopChan); closing a closed channel panics, and
\* the panic, which nothing recovers, ends the process
StopTimerUpdates ==
    /\ main.pc # "crashed"
    /\ IF engine.stopChan = "open"
       THEN /\ engine' = [engine EXCEPT !.stopChan = "closed"]
            /\ UNCHANGED <<main, connections, chan>>
       ELSE /\ main' = [main EXCEPT !.pc = "crashed"]
            /\ engine' = [engine EXCEPT !.loop = "off"]
            /\ connections' = NoConnections
            /\ chan' = [c \in ConnIds |-> FreeChan]
    /\ sent' = {}
    /\ out' = NoOut
    /\ UNCHANGED <<rows, nextID, cache, hist, stopped, call, pass>>

TickLoopIgnoresStop ==
    /\ Ticking
    /\ engine.stopChan = "closed"
    /\ UNCHANGED vars

\* StartTimerUpdates, lines 54-55: the select takes the closed stopChan
TickLoopExit ==
    /\ Ticking
    /\ engine.stopChan = "closed"
    /\ engine' = [engine EXCEPT !.loop = "exited"]
    /\ sent' = {}
    /\ out' = NoOut
    /\ UNCHANGED <<rows, nextID, cache, connections, chan, hist, stopped, main, call, pass>>

\* ------------------------------------------------------ restart and Restore
RestoreTimersInsertOnly(tbl, c, keysOk, bad) ==
    IF ~keysOk THEN tbl
    ELSE UpdateEach(tbl, {c[k] : k \in {x \in DOMAIN c \ bad : ~HasRow(tbl, c[x].ID)}})

RestoreTimersAbortOnFailure(tbl, c, keysOk, bad) ==
    IF ~keysOk \/ bad # {} THEN tbl
    ELSE UpdateEach(tbl, {c[k] : k \in DOMAIN c})

\* RestoreTimers: every snapshot that can be read is saved to the store;
\* bad: the keys whose Get, Unmarshal or repo.Update fails
RestoreTimers(tbl, c, keysOk, bad) ==
    IF ~keysOk THEN tbl
    ELSE UpdateEach(tbl, {c[k] : k \in DOMAIN c \ bad})

\* the process ends and a new one starts: channels are gone, the store and
\* the cache are what they were, main constructs its objects again
Restart ==
    /\ main' = Booting
    /\ engine' = NewEngine
    /\ connections' = NoConnections
    /\ chan' = [c \in ConnIds |-> FreeChan]
    /\ sent' = {}
    /\ out' = NoOut
    /\ hist' = HistNone
    /\ call' = NoCall
    /\ pass' = NoPass
    /\ UNCHANGED <<rows, nextID, cache, stopped>>

\* main, lines 76-80: RestoreTimers; the pass's log: listErr when Keys failed,
\* updated the ids whose existing row differed from the snapshot saved over
\* it, failed the ids of the snapshots skipped
RestoreOnBoot ==
    \E keysOk \in BOOLEAN, bad \in SUBSET DOMAIN cache :
        /\ main.pc = "boot"
        /\ rows' = RestoreTimers(rows, cache, keysOk, bad)
        /\ out' = Out("restore", 0, NoTimer, ~keysOk,
                      {cache[k].ID : k \in {x \in DOMAIN cache \ bad :
                            /\ keysOk
                            /\ HasRow(rows, cache[x].ID)
                            /\ FindByID(rows, cache[x].ID) # cache[x]}},
                      {cache[k].ID : k \in bad})
        /\ main' = [pc |-> "restored", restores |-> main.restores + 1]
        /\ sent' = {}
        /\ UNCHANGED <<nextID, cache, connections, chan, hist, stopped, engine, call, pass>>

\* main, line 82: go timerService.StartTimerUpdates()
StartTimerUpdates ==
    /\ main.pc = "restored"
    /\ engine.loop = "off"
    /\ engine' = [engine EXCEPT !.loop = "running"]
    /\ main' = [main EXCEPT !.pc = "ticking"]
    /\ sent' = {}
    /\ out' = NoOut
    /\ UNCHANGED <<rows, nextID, cache, connections, chan, hist, stopped, call, pass>>

\* main, lines 84-92: routes are set up and the server listens
ServerStart ==
    /\ main.pc = "ticking"
    /\ main' = [main EXCEPT !.pc = "serving"]
    /\ sent' = {}
    /\ out' = NoOut
    /\ UNCHANGED <<rows, nextID, cache, connections, chan, hist, stopped, engine, call, pass>>

\* =============================== commands and tick pass, call by call
\* The same handlers, service methods and tick pass, one step per call to the
\* store, the cache or the broadcaster, so that a command and a tick pass
\* interleave as their goroutines do.

MaxRows == 2        \* rows the store's auto-increment hands out here
MaxCommands == 3    \* commands served here

RowIds == 1..MaxRows
Ops == {"create", "pause", "resume", "modify", "stop"}

\* who issues a command: 0 is a request on the request/response surface,
\* c > 0 a message read on push channel c
Callers == {0} \cup ConnIds

\* the decoded arguments of a command, held in a timer value: create carries
\* the timer CreateTimer builds (lines 102-107), the others the id, modify
\* also newMaxTime
Args(op) ==
    CASE op = "create" -> {Timer(0, sessionID, maxTime, maxTime, FALSE) :
                              sessionID \in Sessions, maxTime \in Times}
      [] op = "modify" -> {[NoTimer EXCEPT !.ID = id, !.MaxTime = maxTime] :
                              id \in RowIds, maxTime \in Times}
      [] OTHER -> {[NoTimer EXCEPT !.ID = id] : id \in RowIds}

ApplyPauseRewinding(op, timer, arg) ==
    CASE op = "pause" -> [timer EXCEPT !.IsPaused = TRUE, !.CurrentTime = timer.MaxTime]
      [] op = "resume" -> [timer EXCEPT !.IsPaused = FALSE]
      [] op = "modify" -> [timer EXCEPT !.MaxTime = arg.MaxTime, !.CurrentTime = arg.MaxTime]
      [] OTHER -> timer

\* the field change a service method applies to the timer FindByID returned
Apply(op, timer, arg) ==
    CASE op = "pause" -> [timer EXCEPT !.IsPaused = TRUE]
      [] op = "resume" -> [timer EXCEPT !.IsPaused = FALSE]
      [] op = "modify" -> [timer EXCEPT !.MaxTime = arg.MaxTime, !.CurrentTime = arg.MaxTime]
      [] OTHER -> timer

AfterErrorGoOn(ok, next) == [pc |-> next, err |-> FALSE]

\* where a service method goes after a store call: on, or back to its
\* caller with the error
AfterStore(ok, next) == IF ok THEN [pc |-> next, err |-> FALSE]
                        ELSE [pc |-> "return", err |-> TRUE]

\* a handler has decoded a command and calls the service method
CommandStart ==
    \E op \in Ops, caller \in Callers :
        \E arg \in Args(op) :
            /\ Serving
            /\ call.pc = "idle"
            /\ call.n < MaxCommands
            /\ caller # 0 => chan[caller].st = "open"
            /\ op = "create" => nextID <= MaxRows
            /\ call' = [pc |-> IF op \in {"create", "stop"} THEN "write" ELSE "find",
                        op |-> op, conn |-> caller, timer |-> arg, err |-> FALSE,
                        steps |-> <<>>, n |-> call.n + 1, to |-> {}, writing |-> 0]
            /\ sent' = {}
            /\ out' = NoOut
            /\ UNCHANGED <<rows, nextID, cache, connections, chan, hist, stopped, main,
                           engine, pass>>

\* a create arrives
CreateStart ==
    /\ CommandStart
    /\ call'.op = "create"

\* PauseTimer, ResumeTimer, ModifyTimer: repo.FindByID and the field change
CommandFind ==
    \E dbOk \in BOOLEAN :
        LET found == dbOk /\ HasRow(rows, call.timer.ID)
            after == AfterStore(found, "write")
        IN  /\ call.pc = "find"
            /\ call' = [call EXCEPT
                          !.pc = after.pc, !.err = after.err,
                          !.timer = IF found
                                    THEN Apply(call.op, FindByID(rows, call.timer.ID), call.timer)
                                    ELSE call.timer,
                          !.steps = Append(@, "find")]
            /\ sent' = {}
            /\ out' = NoOut
            /\ UNCHANGED <<rows, nextID, cache, connections, chan, hist, stopped, main,
                           engine, pass>>

\* the service method's store write: repo.Create, repo.Update or repo.Delete
CommandWrite ==
    \E dbOk \in BOOLEAN :
        LET timer == IF call.op = "create" THEN [call.timer EXCEPT !.ID = nextID]
                     ELSE call.timer
            after == AfterStore(dbOk, "cache")
        IN  /\ call.pc = "write"
            /\ rows' = CASE ~dbOk -> rows
                         [] call.op = "create" -> Create(rows, timer)
                         [] call.op = "stop" -> Delete(rows, timer.ID)
                         [] OTHER -> Update(rows, timer)
            /\ nextID' = IF dbOk /\ call.op = "create" THEN nextID + 1 ELSE nextID
            /\ call' = [call EXCEPT !.pc = after.pc, !.err = after.err,
                                    !.timer = IF dbOk THEN timer ELSE call.timer,
                                    !.steps = Append(@, IF dbOk THEN "write" ELSE "write failed")]
            /\ sent' = {}
            /\ out' = NoOut
            /\ UNCHANGED <<cache, connections, chan, hist, stopped, main, engine, pass>>

\* the service method's cache call: persistTimer, or redis.Del in StopTimer
CommandCache ==
    /\ call.pc = "cache"
    /\ cache' = IF call.op = "stop" THEN RedisDel(cache, CacheKey(Sprint(call.timer.ID)))
                ELSE persistTimer(cache, call.timer)
    /\ call' = [call EXCEPT !.pc = "return", !.steps = Append(@, "cache")]
    /\ sent' = {}
    /\ out' = NoOut
    /\ UNCHANGED <<rows, nextID, connections, chan, hist, stopped, main, engine, pass>>

\* the service method has returned: the request/response handler writes its
\* response, the push-channel handler logs the error or broadcasts
CommandReturn ==
    LET res == [err |-> call.err,
                timer |-> IF call.err \/ call.op = "stop" THEN NoTimer ELSE call.timer]
        gm == chan[call.conn].isGameMaster
    IN  /\ call.pc = "return"
        /\ IF call.conn = 0
           THEN /\ out' = Respond(res, IF call.op = "create" THEN 201 ELSE 200)
                /\ sent' = {}
           ELSE /\ out' = IF call.err THEN WsOut("dropped") ELSE NoOut
                /\ sent' = CASE call.err -> {}
                             [] call.op = "stop" -> broadcastTimerStop(call.timer.ID, gm)
                             [] OTHER -> broadcastTimerUpdate(call.timer, gm)
        /\ call' = [NoCall EXCEPT !.n = call.n]
        /\ UNCHANGED <<rows, nextID, cache, connections, chan, hist, stopped, main, engine,
                       pass>>

\* the slice GetActiveTimers returns: the rows in primary-key order
RECURSIVE InIdOrder(_)
InIdOrder(tbl) ==
    IF tbl = {} THEN <<>>
    ELSE LET t == CHOOSE x \in tbl : \A y \in tbl : x.ID <= y.ID
         IN  <<t>> \o InIdOrder(tbl \ {t})

PassAbortsOnError(timers) == <<>>

\* updateTimers, line 72: `continue` with the timers that remain
PassGoesOn(timers) == Tail(timers)

\* updateTimers, lines 61-65: GetActiveTimers
PassFetch ==
    \E getOk \in BOOLEAN :
        LET timers == IF getOk THEN InIdOrder(GetActiveTimers(rows)) ELSE <<>>
        IN  /\ Ticking
            /\ pass.pc = "idle"
            /\ pass' = [pc |-> IF getOk THEN "loop" ELSE "idle", timers |-> timers,
                        cur |-> NoTimer,
                        due |-> {t.ID : t \in {x \in rows : getOk /\ ShouldTick(x)}},
                        updated |-> {}, failed |-> {}, broadcast |-> {},
                        to |-> {}, writing |-> 0]
            /\ sent' = {}
            /\ out' = NoOut
            /\ UNCHANGED <<rows, nextID, cache, connections, chan, hist, stopped, main,
                           engine, call>>

\* updateTimers, lines 67-73: one iteration up to its repo.Update
PassUpdate ==
    \E dbOk \in BOOLEAN :
        LET timer == Head(pass.timers)
        IN  /\ pass.pc = "loop"
            /\ pass.timers # <<>>
            /\ IF ~ShouldTick(timer)
               THEN /\ dbOk
                    /\ pass' = [pass EXCEPT !.timers = Tail(@)]
                    /\ rows' = rows
               ELSE IF dbOk
               THEN /\ rows' = Update(rows, Ticked(timer))
                    /\ pass' = [pass EXCEPT !.pc = "broadcast", !.cur = Ticked(timer),
                                            !.updated = @ \cup {timer.ID}]
               ELSE /\ rows' = rows
                    /\ pass' = [pass EXCEPT !.timers = PassGoesOn(@),
                                            !.failed = @ \cup {timer.ID}]
            /\ sent' = {}
            /\ out' = NoOut
            /\ UNCHANGED <<nextID, cache, connections, chan, hist, stopped, main, engine,
                           call>>

\* updateTimers, line 74: broadcastTimerUpdate, then the next iteration
PassBroadcast ==
    /\ pass.pc = "broadcast"
    /\ sent' = BroadcastTimerUpdate(pass.cur)
    /\ pass' = [pass EXCEPT !.pc = "loop", !.timers = Tail(@), !.cur = NoTimer,
                            !.broadcast = @ \cup {pass.cur.ID}]
    /\ out' = NoOut
    /\ UNCHANGED <<rows, nextID, cache, connections, chan, hist, stopped, main, engine,
                   call>>

\* updateTimers returns to the select loop of StartTimerUpdates
PassReturn ==
    /\ pass.pc = "loop"
    /\ pass.timers = <<>>
    /\ pass' = NoPass
    /\ sent' = {}
    /\ out' = NoOut
    /\ UNCHANGED <<rows, nextID, cache, connections, chan, hist, stopped, main, engine,
                   call>>

\* ------------------------------------------- broadcasts, write by write
\* broadcastMessage, lines 252-253: a broadcast in progress holds
\* h.mutex.RLock until it returns; read locks are shared
RLocked == pass.pc = "writing" \/ call.pc = "writing"

\* the remote party stops reading and the transport's buffers fill up: a
\* WriteJSON to the channel does not return, no write deadline being set
PeerStall ==
    \E c \in ConnIds :
        /\ chan[c].st = "open"
        /\ chan' = [chan EXCEPT ![c].st = "stalled"]
        /\ sent' = {}
        /\ out' = NoOut
        /\ UNCHANGED <<rows, nextID, cache, connections, hist, stopped, main, engine, call, pass>>

\* HandleGameMasterWebSocket into handleWebSocket, lines 68-70: a supervisor
\* channel registers; h.mutex.Lock is granted when no broadcast holds the
\* read lock
HandleGameMasterWebSocket ==
    /\ ~RLocked
    /\ Connect
    /\ \A c \in ConnIds : chan'[c].st # "free" => chan'[c].isGameMaster

\* closeConnection, lines 91-93, under h.mutex.Lock; the read loop that ends
\* is not the one serving the command in flight
DisconnectLocked ==
    /\ ~RLocked
    /\ \E c \in ConnIds \ {call.conn}, cause \in ReadErrors : ReadError(c, cause)

\* handleTimerCreate, lines 115-123: a create is read on a push channel
CreateOnChannel ==
    /\ CreateStart
    /\ call'.conn # 0

\* CreateTimer, lines 109-113: repo.Create, the store answering
CreateStored ==
    /\ CommandWrite
    /\ ~call'.err

\* updateTimers, lines 67-73: one iteration, the store answering
PassUpdateStored ==
    /\ PassUpdate
    /\ pass'.failed = {}

\* broadcastMessage, lines 252-256, called by a command's handler: RLock, and
\* the connections of the map that are selected
CallBroadcastBegin ==
    /\ call.pc = "return"
    /\ call.conn # 0
    /\ ~call.err
    /\ call' = [call EXCEPT
                  !.pc = "writing",
                  !.to = {connections[s] : s \in {x \in DOMAIN connections :
                              Selected(x, IF call.op = "stop" THEN "" ELSE call.timer.SessionID,
                                       chan[call.conn].isGameMaster)}}]
    /\ sent' = {}
    /\ out' = NoOut
    /\ UNCHANGED <<rows, nextID, cache, connections, chan, hist, stopped, main, engine, pass>>

\* broadcastMessage, line 257: conn.WriteJSON is entered for the next
\* connection of the range, in map order
CallWriteBegin ==
    \E c \in call.to :
        /\ call.pc = "writing"
        /\ call.writing = 0
        /\ call' = [call EXCEPT !.to = @ \ {c}, !.writing = c]
        /\ sent' = {}
        /\ out' = NoOut
        /\ UNCHANGED <<rows, nextID, cache, connections, chan, hist, stopped, main, engine,
                       pass>>

\* broadcastMessage, lines 257-260: conn.WriteJSON returns, its error logged
CallWriteEnd ==
    /\ call.pc = "writing"
    /\ call.writing # 0
    /\ chan[call.writing].st # "stalled"
    /\ sent' = {[conn |-> call.writing,
                 msg |-> IF call.op = "stop" THEN StopMessage(call.timer.ID)
                         ELSE UpdateMessage(call.timer),
                 ok |-> WriteOk(call.writing)]}
    /\ call' = [call EXCEPT !.writing = 0]
    /\ out' = NoOut
    /\ UNCHANGED <<rows, nextID, cache, connections, chan, hist, stopped, main, engine, pass>>

\* broadcastMessage returns (RUnlock), the handler returns to its read loop
CallBroadcastEnd ==
    /\ call.pc = "writing"
    /\ call.to = {}
    /\ call.writing = 0
    /\ call' = [NoCall EXCEPT !.n = call.n]
    /\ sent' = {}
    /\ out' = NoOut
    /\ UNCHANGED <<rows, nextID, cache, connections, chan, hist, stopped, main, engine, pass>>

\* updateTimers, line 74, into broadcastMessage, lines 252-256: RLock, and
\* every connection of the map is selected (isGameMaster is true)
PassBroadcastBegin ==
    /\ pass.pc = "broadcast"
    /\ pass' = [pass EXCEPT
                  !.pc = "writing",
                  !.to = {connections[s] : s \in {x \in DOMAIN connections :
                              Selected(x, pass.cur.SessionID, TRUE)}}]
    /\ sent' = {}
    /\ out' = NoOut
    /\ UNCHANGED <<rows, nextID, cache, connections, chan, hist, stopped, main, engine, call>>

\* broadcastMessage, line 257: conn.WriteJSON is entered
PassWriteBegin ==
    \E c \in pass.to :
        /\ pass.pc = "writing"
        /\ pass.writing = 0
        /\ pass' = [pass EXCEPT !.to = @ \ {c}, !.writing = c]
        /\ sent' = {}
        /\ out' = NoOut
        /\ UNCHANGED <<rows, nextID, cache, connections, chan, hist, stopped, main, engine,
                       call>>

\* broadcastMessage, lines 257-260: conn.WriteJSON returns, its error logged
PassWriteEnd ==
    /\ pass.pc = "writing"
    /\ pass.writing # 0
    /\ chan[pass.writing].st # "stalled"
    /\ sent' = {[conn |-> pass.writing, msg |-> UpdateMessage(pass.cur),
                 ok |-> WriteOk(pass.writing)]}
    /\ pass' = [pass EXCEPT !.writing = 0]
    /\ out' = NoOut
    /\ UNCHANGED <<rows, nextID, cache, connections, chan, hist, stopped, main, engine, call>>

\* broadcastMessage returns (RUnlock), updateTimers goes to its next timer
PassBroadcastEnd ==
    /\ pass.pc = "writing"
    /\ pass.to = {}
    /\ pass.writing = 0
    /\ pass' = [pass EXCEPT !.pc = "loop", !.timers = Tail(@), !.cur = NoTimer,
                            !.broadcast = @ \cup {pass.cur.ID}]
    /\ sent' = {}
    /\ out' = NoOut
    /\ UNCHANGED <<rows, nextID, cache, connections, chan, hist, stopped, main, engine, call>>

\* one push channel connects
ConnectFirst ==
    /\ \A c \in ConnIds : chan[c].st = "free"
    /\ Connect

\* ------------------------------------------------------------------- Spec
\* the program as main runs it: nothing calls StopTimerUpdates
Next ==
    \/ HttpCreateTimer
    \/ HttpPauseTimer
    \/ HttpResumeTimer
    \/ HttpStopTimer
    \/ HttpModifyTimer
    \/ Connect
    \/ PeerDrop
    \/ Disconnect
    \/ handleTimerCreate
    \/ handleTimerPause
    \/ handleTimerResume
    \/ handleTimerStop
    \/ handleTimerModify
    \/ handleMessageDefault
    \/ updateTimers
    \/ Restart
    \/ RestoreOnBoot
    \/ StartTimerUpdates
    \/ ServerStart

Spec == Init /\ [][Next]_vars

\* the service driven through TimerServiceInterface, stop signal included,
\* with the request/response surface as its only client
NextEngine ==
    \/ HttpCreateTimer
    \/ HttpPauseTimer
    \/ HttpResumeTimer
    \/ HttpStopTimer
    \/ HttpModifyTimer
    \/ updateTimers
    \/ StopTimerUpdates
    \/ TickLoopExit
    \/ Restart
    \/ RestoreOnBoot
    \/ StartTimerUpdates
    \/ ServerStart

SpecEngine == Init /\ [][NextEngine]_vars

\* the select of StartTimerUpdates takes a case that is ready: a closed
\* stopChan is ready at every evaluation, so its case is not passed over
\* forever
SpecEngineFair == SpecEngine /\ WF_vars(TickLoopExit)

\* the process with its commands and its tick pass taken call by call
NextSteps ==
    \/ RestoreOnBoot
    \/ StartTimerUpdates
    \/ ServerStart
    \/ ConnectFirst
    \/ CommandStart
    \/ CommandFind
    \/ CommandWrite
    \/ CommandCache
    \/ CommandReturn
    \/ PassFetch
    \/ PassUpdate
    \/ PassBroadcast
    \/ PassReturn

SpecSteps == Init /\ [][NextSteps]_vars

\* creates, ticks and restarts: the stores and caches RestoreTimers can find
\* at boot, up to MaxRows timers
NextRestore ==
    \/ RestoreOnBoot
    \/ StartTimerUpdates
    \/ ServerStart
    \/ CreateStart
    \/ CommandWrite
    \/ CommandCache
    \/ CommandReturn
    \/ updateTimers
    \/ Restart

SpecRestore == Init /\ [][NextRestore]_vars

\* creates read on supervisor channels, the tick pass, and the channels'
\* lifecycle, with every broadcast taken one WriteJSON at a time and a store
\* that answers every call
NextWrites ==
    \/ RestoreOnBoot
    \/ StartTimerUpdates
    \/ ServerStart
    \/ HandleGameMasterWebSocket
    \/ DisconnectLocked
    \/ PeerStall
    \/ CreateOnChannel
    \/ CreateStored
    \/ CommandCache
    \/ CallBroadcastBegin
    \/ CallWriteBegin
    \/ CallWriteEnd
    \/ CallBroadcastEnd
    \/ PassFetch
    \/ PassUpdateStored
    \/ PassBroadcastBegin
    \/ PassWriteBegin
    \/ PassWriteEnd
    \/ PassBroadcastEnd
    \/ PassReturn

SpecWrites == Init /\ [][NextWrites]_vars

\* ================================================================= claims

C3_NoUpdateToOtherSessionOwner ==
    \A w \in sent :
        (w.msg.type = "TIMER_UPDATE" /\ ~chan[w.conn].isGameMaster) =>
            chan[w.conn].sessionID = w.msg.payload.SessionID

\* C4: whenever a TIMER_UPDATE is broadcast, it is written to every registry
\* entry that is a supervisor channel and to every registry entry under the
\* timer's sessionID.
C4_UpdateReachesSupervisorsAndSession ==
    \A w \in sent :
        w.msg.type = "TIMER_UPDATE" =>
            \A s \in DOMAIN connections :
                (chan[connections[s]].isGameMaster \/ s = w.msg.payload.SessionID) =>
                    \E x \in sent : x.conn = connections[s] /\ x.msg = w.msg

\* C5: every channel that registered and has not closed is still a registry
\* entry, whatever was registered under its sessionID afterwards.
C5_SecondRegistrationKeepsFirst ==
    \A c \in ConnIds :
        chan[c].st # "free" => \E s \in DOMAIN connections : connections[s] = c

\* C6: after create(s, m) and k <= m clean tick passes with no other command
\* the timer holds currentTime m - k and is not paused, and each of those
\* passes writes one TIMER_UPDATE carrying that pass's value to the open owner
\* channels of s and to every open supervisor channel.
C6_CreateThenTicks ==
    /\ [](hist.op = "create" =>
            \E t \in rows : /\ t.ID = hist.id
                            /\ t.CurrentTime = hist.expect
                            /\ ~t.IsPaused)
    /\ [][(hist.op = "create" /\ hist'.op = "create" /\ out'.kind = "tick") =>
            \A c \in ConnIds :
                (/\ chan[c].st = "open"
                 /\ \/ chan[c].isGameMaster
                    \/ chan[c].sessionID = FindByID(rows, hist.id).SessionID) =>
                    \E w \in sent' :
                        /\ w.conn = c /\ w.ok
                        /\ w.msg.type = "TIMER_UPDATE"
                        /\ w.msg.payload.ID = hist.id
                        /\ w.msg.payload.CurrentTime = hist'.expect
                        /\ \A x \in sent' :
                              (x.conn = c /\ x.msg.payload.ID = hist.id) => x = w]_vars

\* C7: after pause(id), any number of tick passes, resume(id) and b tick
\* passes (b at most the value held at pause time), the timer's currentTime
\* is the value held at pause time minus b: it stands still while paused and
\* counts on from there after the resume.
C7_PauseTicksResumeTicks ==
    (hist.op \in {"pause", "resume"}) =>
        /\ \E t \in rows : /\ t.ID = hist.id
                           /\ t.CurrentTime = hist.expect
                           /\ t.IsPaused = (hist.op = "pause")
        /\ Cardinality({t \in rows : t.ID = hist.id}) = 1

\* pause, a tick pass while paused, resume, and a tick pass that has just
\* decremented the timer
C7_Witness ==
    /\ hist.op = "resume" /\ hist.idle
    /\ out.kind = "tick" /\ hist.id \in out.updated

\* C8: modify(id, n) on an existing timer leaves its row with maxTime = n and
\* currentTime = n, whatever they and isPaused were, and that row is the
\* timer returned (in the HTTP response; on a push channel, in the
\* TIMER_UPDATE it broadcasts).
C8_ModifySetsBoth ==
    [][/\ (out'.kind = "http" /\ out'.status = 200) =>
            \A idStr \in IdStrings, n \in Times :
                HttpModify(idStr, TRUE, n, TRUE) =>
                    LET id == ParseUint(idStr)
                        new == [FindByID(rows, id) EXCEPT !.MaxTime = n, !.CurrentTime = n]
                    IN  /\ {t \in rows' : t.ID = id} = {new}
                        /\ out'.timer = new
       /\ out'.kind = "none" =>
            \A idStr \in IdStrings :
                HasRow(rows, ParseUint(idStr)) =>
                    \A n \in Times, c \in ConnIds :
                        WsModify(c, TRUE, idStr, n, TRUE) =>
                            LET id == ParseUint(idStr)
                                new == [FindByID(rows, id) EXCEPT !.MaxTime = n,
                                                                  !.CurrentTime = n]
                            IN  /\ {t \in rows' : t.ID = id} = {new}
                                /\ \A w \in sent' :
                                      w.msg.type = "TIMER_UPDATE" /\ w.msg.payload = new]_vars

\* a modify of a paused timer has just been answered with maxTime and
\* currentTime both 1, and that timer is the stored row
C8_Witness ==
    /\ out.kind = "http" /\ out.status = 200
    /\ out.timer.ID # 0 /\ out.timer.IsPaused
    /\ out.timer.MaxTime = 1 /\ out.timer.CurrentTime = 1
    /\ out.timer \in rows
    /\ hist.op = "none"

\* C9: once stop(id) has succeeded on an existing timer, no lookup of id
\* finds a row again.
C9_StoppedStaysGone == \A id \in stopped : ~(\E t \in rows : t.ID = id)

\* C10: every successful stop(id), over HTTP or on any push channel, writes
\* a TIMER_STOP carrying id to every supervisor channel of the registry.
C10_StopReachesSupervisors ==
    [][\A idStr \in PayloadStrings :
          (/\ ParseUint(idStr) # 0
           /\ \/ HttpStop(idStr, TRUE)
              \/ \E c \in ConnIds : WsStop(c, TRUE, idStr, TRUE)) =>
              \A s \in DOMAIN connections :
                  chan[connections[s]].isGameMaster =>
                      \E w \in sent' : /\ w.conn = connections[s]
                                       /\ w.msg.type = "TIMER_STOP"
                                       /\ w.msg.payload.ID = ParseUint(idStr)]_vars

\* C11: every successful create, pause, resume or modify has written the
\* row, refreshed the snapshot and written a TIMER_UPDATE carrying the new
\* timer to the registry entry of the timer's session; stated here for the
\* commands answered on the request/response surface.
C11_CommandWritesSnapshotsBroadcasts ==
    [][(out'.kind = "http" /\ out'.status \in {200, 201} /\ out'.timer.ID # 0) =>
          LET t == out'.timer
          IN  /\ t \in rows'
              /\ CacheKey(t.SessionID) \in DOMAIN cache'
              /\ cache'[CacheKey(t.SessionID)] = t
              /\ \A s \in DOMAIN connections :
                    s = t.SessionID =>
                        \E w \in sent' : /\ w.conn = connections[s]
                                         /\ w.msg.type = "TIMER_UPDATE"
                                         /\ w.msg.payload = t]_vars

\* C12: after stop(id) has succeeded on an existing timer the cache holds no
\* snapshot of that timer.
C12_StopDeletesSnapshot ==
    \A id \in stopped : \A k \in DOMAIN cache : cache[k].ID # id

\* C13: when Restore reads a snapshot and saves it, and the snapshot's timer
\* has a durable row, the row after Restore is the snapshot: its currentTime
\* and isPaused are the snapshot's, whatever the row held before.
C13_RestoreReconciles ==
    [][(out'.kind = "restore" /\ ~out'.listErr) =>
          \A k \in DOMAIN cache :
              (cache[k].ID \notin out'.failed /\ HasRow(rows, cache[k].ID)) =>
                  /\ {t \in rows' : t.ID = cache[k].ID} = {cache[k]}
                  /\ FindByID(rows', cache[k].ID).CurrentTime = cache[k].CurrentTime
                  /\ FindByID(rows', cache[k].ID).IsPaused = cache[k].IsPaused]_vars

\* Restore has just saved a snapshot over a row that differed from it
C13_Witness ==
    /\ out.kind = "restore" /\ out.updated # {}
    /\ \E k \in DOMAIN cache : cache[k].ID \in out.updated /\ cache[k] \in rows

\* C14: Restore never creates a row: the timer ids of the durable store
\* after Restore are the ids before it.
C14_RestoreCreatesNoRow ==
    [][out'.kind = "restore" => {t.ID : t \in rows'} = {t.ID : t \in rows}]_vars

\* C15: Restore runs once per process start, and while it has not run no
\* tick pass has run, no request has been answered and no push channel is
\* registered or open.
C15_RestoreBeforeEverything ==
    /\ main.pc = "boot" =>
          /\ main.restores = 0
          /\ out.kind = "none"
          /\ engine.loop = "off"
          /\ DOMAIN connections = {}
          /\ \A c \in ConnIds : chan[c].st = "free"
    /\ main.pc \in {"restored", "ticking", "serving"} => main.restores = 1
    /\ (out.kind \in {"tick", "http"} \/ DOMAIN connections # {}) => main.restores = 1

\* the first tick pass of a process whose Restore found a snapshot runs
\* before the server listens
C15_Witness ==
    /\ main.pc = "ticking" /\ main.restores = 1
    /\ out.kind = "tick"
    /\ DOMAIN cache # {}

\* C16: a command on an id that has no durable row returns an error, leaves
\* the store and the cache as they were and writes to no channel; stated
\* here for modify and stop, over HTTP (answered 500) and on a push channel.
C16_UnknownIdIsAnError ==
    [][\A idStr \in IdStrings :
          ~HasRow(rows, ParseUint(idStr)) =>
              /\ (HttpStop(idStr, TRUE) \/ \E n \in Times : HttpModify(idStr, TRUE, n, TRUE)) =>
                    /\ out'.status = 500
                    /\ rows' = rows /\ cache' = cache /\ sent' = {}
              /\ (\E c \in ConnIds :
                    WsStop(c, TRUE, idStr, TRUE) \/ \E n \in Times : WsModify(c, TRUE, idStr, n, TRUE)) =>
                    /\ rows' = rows /\ cache' = cache /\ sent' = {}]_vars

C18_SecondStopIsSafe == main.pc # "crashed"

\* C19: a channel whose read loop has exited is no registry entry and is
\* written to by no broadcast.
C19_ExitDeregisters ==
    \A c \in ConnIds :
        chan[c].st = "free" =>
            /\ \A s \in DOMAIN connections : connections[s] # c
            /\ \A w \in sent : w.conn # c

\* the first channel's read loop has exited and a broadcast has just been
\* written to the channel that connected after it
C19_Witness ==
    /\ chan[1].st = "free" /\ chan[2].st = "open"
    /\ \E w \in sent : w.conn = 2

\* C20: a channel on which a broadcast write has failed is no longer a
\* registry entry once that broadcast is over.
C20_FailedWriteUnregisters ==
    \A w \in sent : ~w.ok => \A s \in DOMAIN connections : connections[s] # w.conn

\* C21: a push-channel message whose type is no command type is ignored: the
\* store, the cache, the registry and every channel are as before, the tick
\* engine and the process are untouched and nothing is written to a channel.
C21_UnknownTypeIgnored ==
    [][out'.kind = "ignored" =>
          /\ rows' = rows /\ nextID' = nextID /\ cache' = cache
          /\ connections' = connections /\ chan' = chan
          /\ main' = main /\ engine' = engine
          /\ sent' = {}]_vars

\* a message of unknown type has just been read on an open, registered
\* channel while a timer exists
C21_Witness ==
    /\ out.kind = "ignored"
    /\ rows # {}
    /\ \E s \in DOMAIN connections : chan[connections[s]].st = "open"

\* C22: whatever makes the push-channel surface drop a message (malformed
\* envelope or payload, unparsable id, not-found, persistence failure), every
\* channel stays as it was and registered, and nothing is written to a
\* channel.
C22_DroppedKeepsChannel ==
    [][out'.kind = "dropped" =>
          /\ chan' = chan
          /\ connections' = connections
          /\ sent' = {}]_vars

\* C23: a command read on an open supervisor channel and served successfully
\* leaves the store as the matching service operation leaves it, and the
\* TIMER_UPDATE carrying the returned timer (for stop, the TIMER_STOP carrying
\* the id) is written to the issuing channel itself.
C23_SupervisorCommandEchoed ==
    [][(out'.kind = "none" /\ rows' # rows) =>
          \A c \in ConnIds :
              (chan[c].st = "open" /\ chan[c].isGameMaster) =>
                  /\ \A sessionID \in Sessions, maxTime \in Times :
                        WsCreate(c, TRUE, sessionID, maxTime, TRUE) =>
                            /\ rows' = CreateTimer(sessionID, maxTime, TRUE).rows
                            /\ \E w \in sent' :
                                  /\ w.conn = c
                                  /\ w.msg = UpdateMessage(CreateTimer(sessionID, maxTime, TRUE).timer)
                  /\ \A idStr \in IdStrings :
                        HasRow(rows, ParseUint(idStr)) =>
                            /\ WsPause(c, TRUE, idStr, TRUE) =>
                                  /\ rows' = PauseTimer(ParseUint(idStr), TRUE).rows
                                  /\ \E w \in sent' :
                                        /\ w.conn = c
                                        /\ w.msg = UpdateMessage(PauseTimer(ParseUint(idStr), TRUE).timer)
                            /\ WsResume(c, TRUE, idStr, TRUE) =>
                                  /\ rows' = ResumeTimer(ParseUint(idStr), TRUE).rows
                                  /\ \E w \in sent' :
                                        /\ w.conn = c
                                        /\ w.msg = UpdateMessage(ResumeTimer(ParseUint(idStr), TRUE).timer)
                            /\ \A maxTime \in Times :
                                  WsModify(c, TRUE, idStr, maxTime, TRUE) =>
                                      /\ rows' = ModifyTimer(ParseUint(idStr), maxTime, TRUE).rows
                                      /\ \E w \in sent' :
                                            /\ w.conn = c
                                            /\ w.msg = UpdateMessage(
                                                  ModifyTimer(ParseUint(idStr), maxTime, TRUE).timer)
                            /\ WsStop(c, TRUE, idStr, TRUE) =>
                                  /\ rows' = StopTimer(ParseUint(idStr), TRUE).rows
                                  /\ \E w \in sent' :
                                        /\ w.conn = c
                                        /\ w.msg = StopMessage(ParseUint(idStr))]_vars

\* C24: on the request/response surface a successful create is answered 201
\* with the created timer, every other successful operation 200 with the
\* service's result; a body that does not decode or an id that does not parse
\* is answered 400 with the store and the cache untouched; a service error
\* (no row with the id, or a store failure) is answered 500.
C24_HttpStatusCodes ==
    [][out'.kind = "http" =>
          /\ \A bodyOk \in BOOLEAN, dbOk \in BOOLEAN :
                \A sessionID \in Decoded(bodyOk, Sessions, ""),
                   maxTime \in Decoded(bodyOk, Times, 0) :
                    HttpCreate(bodyOk, sessionID, maxTime, dbOk) =>
                        CASE ~bodyOk -> /\ out'.status = 400
                                        /\ rows' = rows /\ cache' = cache /\ nextID' = nextID
                          [] ~dbOk -> out'.status = 500
                          [] OTHER -> /\ out'.status = 201
                                      /\ out'.timer = Timer(nextID, sessionID, maxTime, maxTime, FALSE)
                                      /\ out'.timer \in rows'
          /\ \A idStr \in PayloadStrings, dbOk \in BOOLEAN :
                LET id == ParseUint(idStr)
                IN  /\ (HttpPause(idStr, dbOk) \/ HttpResume(idStr, dbOk)) =>
                          CASE id = 0 -> /\ out'.status = 400
                                         /\ rows' = rows /\ cache' = cache
                            [] ~dbOk \/ ~HasRow(rows, id) -> out'.status = 500
                            [] OTHER -> /\ out'.status = 200
                                        /\ out'.timer.ID = id
                                        /\ out'.timer \in rows'
                    /\ HttpStop(idStr, dbOk) =>
                          CASE id = 0 -> /\ out'.status = 400
                                         /\ rows' = rows /\ cache' = cache
                            [] ~dbOk -> out'.status = 500
                            [] OTHER -> out'.status = 200 /\ ~HasRow(rows', id)
                    /\ \A bodyOk \in BOOLEAN :
                          \A maxTime \in Decoded(bodyOk, Times, 0) :
                              HttpModify(idStr, bodyOk, maxTime, dbOk) =>
                                  CASE id = 0 \/ ~bodyOk ->
                                          /\ out'.status = 400
                                          /\ rows' = rows /\ cache' = cache
                                    [] ~dbOk \/ ~HasRow(rows, id) -> out'.status = 500
                                    [] OTHER -> /\ out'.status = 200
                                                /\ out'.timer.ID = id
                                                /\ out'.timer.MaxTime = maxTime
                                                /\ out'.timer \in rows']_vars

\* a request on an id with no row has just been answered 500 after a timer
\* was created (201), stopped, and its id asked for again
C24_Witness ==
    /\ out.kind = "http" /\ out.status = 500
    /\ nextID > 1 /\ rows = {}
    /\ stopped # {}

\* C25: every tick pass leaves, for each timer whose decrement it persisted,
\* a cache snapshot equal to the timer's durable row.
C25_TickRefreshesSnapshot ==
    [][out'.kind = "tick" =>
          \A id \in out'.updated :
              LET t == FindByID(rows', id)
              IN  /\ CacheKey(t.SessionID) \in DOMAIN cache'
                  /\ cache'[CacheKey(t.SessionID)] = t]_vars

\* C26: when a channel's read loop ends, every registry entry that holds
\* another channel is still there, whatever its sessionID, and the tick
\* engine is as it was.
C26_CloseRemovesOnlyOwnEntry ==
    [][\A c \in ConnIds :
          (\E cause \in ReadErrors : ReadError(c, cause)) =>
              /\ engine' = engine
              /\ \A s \in DOMAIN connections :
                    connections[s] # c =>
                        /\ s \in DOMAIN connections'
                        /\ connections'[s] = connections[s]]_vars

\* C27: a command's cache write comes right after its store write has
\* succeeded, and its broadcast after both; a command whose lookup or store
\* write failed returns the error to its caller (answered 500, or logged on
\* a push channel) having written neither the store nor the cache, and
\* nothing is broadcast for it.
C27_WriteThenCacheThenBroadcast ==
    [][/\ cache' # cache =>
              /\ call.pc = "cache"
              /\ call.steps # <<>>
              /\ call.steps[Len(call.steps)] = "write"
       /\ (call.pc = "return" /\ call'.pc = "idle") =>
              IF call.err
              THEN /\ \A i \in DOMAIN call.steps : call.steps[i] \notin {"write", "cache"}
                   /\ sent' = {}
                   /\ out' = IF call.conn = 0 THEN HttpOut(500, NoTimer) ELSE WsOut("dropped")
              ELSE /\ Len(call.steps) >= 2
                   /\ call.steps[Len(call.steps) - 1] = "write"
                   /\ call.steps[Len(call.steps)] = "cache"
       /\ (call.pc = "write" /\ call'.err) => rows' = rows]_vars

\* a command read on a push channel has just broadcast its TIMER_STOP, after
\* its delete and its cache call, while a tick pass is in flight
C27_Witness ==
    /\ call.pc = "idle" /\ call.n > 0
    /\ pass.pc = "loop"
    /\ \E w \in sent : w.msg.type = "TIMER_STOP"

\* C28: whether issued by a pause, resume or modify or by the tick pass,
\* every store Update leaves, for its timer, exactly the row the writer
\* built, all columns, and the store changes in no other step: after any
\* interleaving a timer's row is the row of the Update that ran last.
C28_LastUpdateWins ==
    [][/\ (call.pc = "write" /\ call'.pc = "cache"
              /\ call.op \in {"pause", "resume", "modify"}) =>
              /\ call'.timer = call.timer
              /\ {r \in rows' : r.ID = call.timer.ID} = {call.timer}
       /\ (pass.pc = "loop" /\ pass'.pc = "broadcast") =>
              /\ pass'.cur = [Head(pass.timers) EXCEPT !.CurrentTime = @ - 1]
              /\ {r \in rows' : r.ID = pass'.cur.ID} = {pass'.cur}
       /\ rows' # rows =>
              \/ call.pc = "write" /\ call'.pc = "cache"
              \/ pass.pc = "loop" /\ pass'.pc = "broadcast"
              \/ main.pc = "boot"]_vars

\* a pause has written its row and, before it returned, the tick pass that
\* had read the timer earlier wrote its decrement: the row is the tick's
\* row, counting and one less, not a mix of the two
C28_Witness ==
    /\ call.op = "pause" /\ call.pc \in {"cache", "return"}
    /\ call.timer.IsPaused
    /\ pass.pc = "broadcast"
    /\ pass.cur.ID = call.timer.ID
    /\ ~pass.cur.IsPaused
    /\ pass.cur.CurrentTime = call.timer.CurrentTime - 1
    /\ {r \in rows : r.ID = call.timer.ID} = {pass.cur}

\* C29: a timer whose update failed in a tick pass is not broadcast in that
\* pass; when the pass returns, every timer it had read as due has had its
\* update attempted, every updated one has been broadcast, and the loop is
\* still running, ready for the next tick.
C29_FailedUpdateSkipsOnlyThatTimer ==
    /\ [](pass.failed \cap pass.broadcast = {})
    /\ [](main.pc \in {"ticking", "serving"} => engine.loop = "running")
    /\ [][(pass.pc = "loop" /\ pass'.pc = "idle") =>
              /\ pass.due \subseteq (pass.updated \cup pass.failed)
              /\ pass.broadcast = pass.updated
              /\ pass.failed \cap pass.updated = {}
              /\ pass' = NoPass
              /\ engine' = engine]_vars

\* in one pass the update of timer 1 failed and timer 2, next in the pass,
\* has been updated and broadcast to a channel
C29_Witness ==
    /\ pass.pc = "loop" /\ pass.timers = <<>>
    /\ pass.failed = {1}
    /\ pass.broadcast = {2}
    /\ \E w \in sent : w.msg.payload.ID = 2

\* C30: within one broadcast, a write that failed did not cut the broadcast
\* short: the channels written to are all the selected ones, that is every
\* registry entry (supervisor-issued and tick broadcasts) or every registry
\* entry under the message's session.
C30_FailedWriteDoesNotStopBroadcast ==
    \A w \in sent :
        ~w.ok =>
            LET written == {x.conn : x \in {y \in sent : y.msg = w.msg}}
            IN  \/ written = {connections[s] : s \in DOMAIN connections}
                \/ written = {connections[s] :
                                s \in DOMAIN connections \cap {w.msg.payload.SessionID}}

\* one broadcast has just been written to a channel whose peer is gone and to
\* a channel that is open
C30_Witness ==
    \E w \in sent, x \in sent : ~w.ok /\ x.ok /\ x.msg = w.msg /\ x.conn # w.conn

C37_RestoreNeverRaisesCurrentTime ==
    [][out'.kind = "restore" =>
          \A r \in rows : \A r2 \in rows' :
              r2.ID = r.ID => r2.CurrentTime <= r.CurrentTime]_vars

\* C34: a pause that has returned is not lost: while no command is in
\* flight, a row that is paused stays paused with its currentTime, also when
\* a tick pass that read the timer before the pause writes its row back.
C34_PauseNotLost ==
    [][(call.pc = "idle" /\ call'.pc = "idle") =>
          \A r \in rows :
              r.IsPaused =>
                  \E r2 \in rows' :
                      r2.ID = r.ID /\ r2.IsPaused /\ r2.CurrentTime = r.CurrentTime]_vars

\* C35: a timer that was stopped never exists again: an id the store has
\* handed out and no longer holds, with no stop of it still in flight, is in
\* the store after no step, whether of a tick pass or of a pause, resume or
\* modify that read the timer before the deletion.
C35_StoppedTimerStaysGone ==
    [][\A id \in RowIds :
          (/\ id < nextID
           /\ ~HasRow(rows, id)
           /\ ~(call.op = "stop" /\ call.timer.ID = id)) =>
              ~HasRow(rows', id)]_vars

\* C38: the cache call of a command on one timer leaves the snapshot of
\* every other timer as it was, also when two timers share a sessionID.
C38_SnapshotOfOtherTimerKept ==
    [][call.pc = "cache" =>
          \A k \in DOMAIN cache :
              cache[k].ID # call.timer.ID =>
                  k \in DOMAIN cache' /\ cache'[k] = cache[k]]_vars

\* C40: an operation changes only its own fields of its own timer. The
\* lookup of a pause or resume hands on the row it read with only isPaused
\* changed, that of a modify with only maxTime and currentTime changed; the
\* store write that follows puts exactly that row in place of the timer's row
\* and touches no other row; a tick whose timer is still stored as it was
\* read replaces it by the same row with currentTime one less; create only
\* adds its row, stop only removes its row; no step changes the id or the
\* sessionID of a stored row.
C40_OnlyOwnFieldsOfOwnTimer ==
    [][/\ (call.pc = "find" /\ call'.pc = "write") =>
              LET read == FindByID(rows, call.timer.ID)
                  t == call'.timer
              IN  /\ t.ID = read.ID /\ t.SessionID = read.SessionID
                  /\ call.op \in {"pause", "resume"} =>
                        /\ t.MaxTime = read.MaxTime
                        /\ t.CurrentTime = read.CurrentTime
                        /\ t.IsPaused = (call.op = "pause")
                  /\ call.op = "modify" =>
                        /\ t.IsPaused = read.IsPaused
                        /\ t.MaxTime = call.timer.MaxTime
                        /\ t.CurrentTime = call.timer.MaxTime
       /\ (call.pc = "write" /\ call'.pc = "cache") =>
              /\ {r \in rows' : r.ID # call'.timer.ID} = {r \in rows : r.ID # call'.timer.ID}
              /\ call.op = "create" => rows' = rows \cup {call'.timer}
              /\ call.op = "stop" => ~HasRow(rows', call.timer.ID)
              /\ call.op \in {"pause", "resume", "modify"} =>
                     {r \in rows' : r.ID = call.timer.ID} = {call.timer}
       /\ (pass.pc = "loop" /\ pass'.pc = "broadcast" /\ Head(pass.timers) \in rows) =>
              rows' = (rows \ {Head(pass.timers)})
                          \cup {[Head(pass.timers) EXCEPT !.CurrentTime = @ - 1]}
       /\ \A r \in rows : \A r2 \in rows' : r2.ID = r.ID => r2.SessionID = r.SessionID]_vars

\* with two timers stored and no tick pass in flight, a pause of timer 2 has
\* read its row, counting, and written it back paused
C40_Witness ==
    /\ call.op = "pause" /\ call.pc = "cache"
    /\ call.timer.ID = 2
    /\ pass.pc = "idle"
    /\ HasRow(rows, 1)
    /\ call.timer \in rows
    /\ call.timer.CurrentTime > 0

\* C32: a snapshot that cannot be read, deserialized or written to the store
\* is skipped alone: after RestoreTimers every other snapshot found is the
\* timer's row, the row of a skipped snapshot's timer is as it was, and
\* RestoreTimers returns nil, so that main goes on to start the tick loop.
C32_RestoreSkipsOnlyFailedSnapshot ==
    [][(out'.kind = "restore" /\ ~out'.listErr) =>
          /\ \A k \in DOMAIN cache :
                IF cache[k].ID \in out'.failed
                THEN {r \in rows' : r.ID = cache[k].ID} = {r \in rows : r.ID = cache[k].ID}
                ELSE {r \in rows' : r.ID = cache[k].ID} = {cache[k]}
          /\ main'.pc = "restored"]_vars

\* a restore found two snapshots, skipped one and saved the other over a row
\* that differed from it
C32_Witness ==
    /\ out.kind = "restore" /\ ~out.listErr
    /\ Cardinality(DOMAIN cache) = 2
    /\ out.failed # {}
    /\ out.updated # {}
    /\ out.updated \cap out.failed = {}

\* C31: a channel whose write does not complete stalls nobody: while a
\* broadcast is in a write to such a channel, the broadcast can go on to the
\* recipients it has left, a channel can register when a slot is free, and
\* an open channel whose read loop ends can unregister.
C31_StalledWriteStallsNobody ==
    \A c \in ConnIds :
        (chan[c].st = "stalled" /\ (pass.writing = c \/ call.writing = c)) =>
            /\ (pass.writing = c /\ pass.to # {}) => ENABLED (PassWriteBegin \/ PassWriteEnd)
            /\ (call.writing = c /\ call.to # {}) => ENABLED (CallWriteBegin \/ CallWriteEnd)
            /\ (\E d \in ConnIds : chan[d].st = "free") => ENABLED HandleGameMasterWebSocket
            /\ (\E d \in ConnIds \ {c, call.conn} : chan[d].st = "open") =>
                   ENABLED DisconnectLocked

\* C36: the tick pass's broadcast and a command handler's broadcast are never
\* both in a write to the same channel.
C36_OneWriterPerChannel ==
    ~(pass.writing # 0 /\ call.writing = pass.writing)

\* C39: a tick pass that has a timer still to decrement can take its next
\* step, whatever the channels its broadcasts write to do.
C39_PassCompletes ==
    (/\ pass.pc # "idle"
     /\ \E i \in 2..Len(pass.timers) : ShouldTick(pass.timers[i])) =>
        ENABLED (\/ PassUpdate
                 \/ PassBroadcastBegin
                 \/ PassWriteBegin
                 \/ PassWriteEnd
                 \/ PassBroadcastEnd
                 \/ PassReturn)

====
